---- MODULE Spec2Model ----
(***************************************************************************)
(* The video-analysis job lifecycle of the GuardianCam backend:            *)
(* POST /analyze-video (routes/fallDetection.js), its fire-and-forget      *)
(* .then/.catch continuation, the two PythonModelIntegration wrappers      *)
(* (fail-policy: Backend/utils/pythonModelIntegration.js, simulate-policy: *)
(* the second wrapper with simulateFallDetection), the inference           *)
(* subprocess and the document store.                                      *)
(***************************************************************************)
EXTENDS Integers, Sequences, FiniteSets, TLC

\* ---------------------------------------------------------------- bounds
\* Requests handled in Spec; SpecConcurrent handles one more, so that two
\* analyses can be in flight together.
MaxJobs == 1
MaxOutLen == 3
\* Alerts the store holds in SpecStore, and processVideo calls made on the
\* one wrapper instance of SpecInstance.
MaxAlerts == 2
MaxCalls == 3
\* Monitoring sessions the store holds in SpecMonitor, and requests made to
\* the users collection in SpecUsers.
MaxSessions == 2
MaxReqs == 3

Jobs == 1..MaxJobs
AllJobs == 1..(MaxJobs + 1)
Users == {"alice", "bob"}
Wrappers == {"fail", "simulate"}

None == "none"
NoResult == [fallDetected |-> "absent", confidence |-> "absent",
             others |-> "absent", simulation |-> "absent"]
NoJob == [status |-> "absent", result |-> NoResult, error |-> None, userId |-> None,
          videoPath |-> None]

\* ------------------------------------------------ subprocess output model
\* Standard output is a sequence of chunks.  "{" and "}" are brace
\* characters; camelT/camelF is the text of a JSON body carrying every field
\* the route reads under its camelCase name (fallDetected true/false);
\* snakeT/snakeF is a JSON body with the snake_case names (fall_detected,
\* confidence, model_version, processing_time, frames_processed); predFall /
\* predNormal are the lines "Prediction: Fall" / "Prediction: Normal"; conf is
\* a line "Confidence: 0.9"; junk is any other text.
BodyTokens == {"camelT", "camelF", "snakeT", "snakeF"}
LabelTokens == {"predFall", "predNormal", "conf"}
Tokens == {"{", "}", "junk"} \cup BodyTokens \cup LabelTokens

Outputs == UNION {[1..n -> Tokens] : n \in 0..MaxOutLen}

Thrown == [ok |-> FALSE, value |-> "none"]
Returned(v) == [ok |-> TRUE, value |-> v]
ParseThrown == [ok |-> FALSE, value |-> NoResult]

\* JSON.parse applied to a chunk sequence: an object literal is "{" body "}"
\* or the empty object "{" "}"; anything else throws.
JSONparse(text) ==
  IF text = <<"{", "}">> THEN Returned("empty")
  ELSE IF Len(text) = 3 /\ text[1] = "{" /\ text[3] = "}" /\ text[2] \in BodyTokens
       THEN Returned(text[2])
       ELSE Thrown

\* output.match(/\{.*\}/s): greedy, dot matches newlines: from the first "{"
\* to the last "}" after it; None when there is no such pair.
jsonMatch(output) ==
  LET opens  == {i \in DOMAIN output : output[i] = "{"}
      closes == {i \in DOMAIN output : output[i] = "}"}
  IN IF opens = {} THEN None
     ELSE LET first == CHOOSE i \in opens : \A k \in opens : i <= k
          IN IF \E k \in closes : k > first
             THEN LET last == CHOOSE k \in closes : \A m \in closes : m <= k
                  IN SubSeq(output, first, last)
             ELSE None

\* The object the fail-policy wrapper hands on when the JSON branch is taken:
\* the parsed object as it is, so a field the payload does not carry under
\* the camelCase name is undefined.
RawObject(body) ==
  CASE body = "camelT" -> [fallDetected |-> "true",  confidence |-> "set",
                           others |-> "set", simulation |-> "undefined"]
    [] body = "camelF" -> [fallDetected |-> "false", confidence |-> "set",
                           others |-> "set", simulation |-> "undefined"]
    [] body \in {"snakeT", "snakeF"} ->
                          [fallDetected |-> "undefined", confidence |-> "set",
                           others |-> "undefined", simulation |-> "undefined"]
    [] OTHER           -> [fallDetected |-> "undefined", confidence |-> "undefined",
                           others |-> "undefined", simulation |-> "undefined"]

\* The line loop of parsePythonOutput: later lines overwrite earlier ones.
RECURSIVE ScanLines(_, _)
ScanLines(lines, results) ==
  IF lines = <<>> THEN results
  ELSE LET line == Head(lines)
           next == IF line = "predFall" THEN [results EXCEPT !.fallDetected = "true"]
                   ELSE IF line = "predNormal" THEN [results EXCEPT !.fallDetected = "false"]
                   ELSE IF line = "conf" THEN [results EXCEPT !.confidence = "set"]
                   ELSE results
       IN ScanLines(Tail(lines), next)

LineDefaults == [fallDetected |-> "false", confidence |-> "zero",
                 others |-> "set", simulation |-> "false"]

\* parsePythonOutput of the fail-policy wrapper.
parsePythonOutput(output) ==
  LET m == jsonMatch(output)
  IN IF m # None
     THEN LET p == JSONparse(m)
          IN IF p.ok THEN Returned(RawObject(p.value)) ELSE ParseThrown
     ELSE Returned(ScanLines(output, LineDefaults))

\* The confidence option the route passes (0.8), in thousandths, and sample
\* values of Math.random() in [0, 1), in thousandths.
ConfidenceOption == 800
RandomSamples == {0, 1, 500, 999}

\* fallConfidence of simulateFallDetection, in thousandths.
simulatedConfidence(isFall, rnd) ==
  IF isFall
  THEN (rnd * (1000 - ConfidenceOption)) \div 1000 + ConfidenceOption
  ELSE (rnd * ConfidenceOption) \div 1000

\* A fallback result that does not say it is one.
simulateFallDetectionUnflagged(isFall) ==
  [fallDetected |-> IF isFall THEN "true" ELSE "false", confidence |-> "set",
   others |-> "set", simulation |-> "undefined"]

\* simulateFallDetection: Math.random decides the flag.
simulateFallDetection(isFall) ==
  [fallDetected |-> IF isFall THEN "true" ELSE "false", confidence |-> "set",
   others |-> "set", simulation |-> "true"]

\* The close handler of the simulate-policy wrapper on exit code 0:
\* JSON.parse(stdout) of the whole stream, fields read under their snake_case
\* names with || defaults; a parse error falls back to the simulation.
parseSimulateWrapper(output, isFall) ==
  LET p == JSONparse(output)
  IN IF p.ok
     THEN [fallDetected |-> IF p.value = "snakeT" THEN "true" ELSE "false",
           confidence |-> IF p.value \in BodyTokens THEN "set" ELSE "zero",
           others |-> "set", simulation |-> "undefined"]
     ELSE simulateFallDetection(isFall)

\* ------------------------------------------------------------------ state
VARIABLES
  wrapper,      \* which module require("../utils/pythonModelIntegration") loads
  nextReq,      \* requests arrive in the order of their job ids
  req,          \* per request: position in the route handler, caller, response
  running,      \* the request whose synchronous segment is on the call stack, 0 if none
  jobs,         \* collection fall_analyses
  alerts,       \* collection alerts (a sequence: duplicates are visible)
  promise,      \* the promise processVideo returned
  queue,        \* promise reaction jobs (microtasks) queued for the .then/.catch chain
  cont,         \* position of the .then/.catch continuation
  proc,         \* the spawned python process
  isProcessing, \* this.isProcessing of the request's wrapper instance
  timer,        \* the setTimeout of the fail-policy wrapper
  elapsed,      \* whether 300000 ms have passed since the spawn, and what they found
  log,          \* per job: the store writes, the 202 response and the kill, in order
  outcome,      \* the first event that ended the attempt
  busyAtArrival,\* another analysis was in flight when the request arrived
  storeThrew,   \* a store call of the continuation threw
  resp,         \* the last response of a query or alert route
  bulk,         \* POST /alerts/bulk-resolve between its query and its commit
  iFlag,        \* this.isProcessing of a wrapper instance that serves several calls
  iCalls,       \* the processVideo calls made on that instance
  parsed,       \* an output handed to parsePythonOutput, and what came back
  del,          \* DELETE /users/account between its queries and its commit
  deleted,      \* the users whose DELETE /users/account was answered 200
  sessions,     \* the monitoring_sessions collection
  prefs,        \* preferences.fallDetectionEnabled of each user document
  mon,          \* a start- or stop-monitoring request and its response
  monStatus,    \* the last response of GET /monitoring-status
  userDocs,     \* the users collection: the email of each document
  regs          \* register and profile requests on the users collection

jobVars == <<wrapper, nextReq, req, running, jobs, alerts, promise, queue, cont, proc,
             isProcessing, timer, elapsed, log, outcome, busyAtArrival, storeThrew>>
queryVars == <<resp, bulk>>
instVars == <<iFlag, iCalls>>
delVars == <<del, deleted>>
monVars == <<sessions, prefs, mon, monStatus>>
regVars == <<userDocs, regs>>
acctVars == <<delVars, monVars, regVars>>
vars == <<jobVars, queryVars, instVars, parsed, acctVars>>

Pending == [state |-> "pending", result |-> NoResult, error |-> None]
NoPromise == [state |-> "none", result |-> NoResult, error |-> None]
Resolved(r) == [state |-> "resolved", result |-> r, error |-> None]
Rejected(e) == [state |-> "rejected", result |-> NoResult, error |-> e]
NoCont == [pc |-> "none", result |-> NoResult, error |-> None]
NoAlert == [userId |-> None, analysisId |-> 0, type |-> None, severity |-> None,
            status |-> "absent"]
NoResp == [route |-> None, caller |-> None, id |-> 0, ids |-> {},
           limit |-> 0, code |-> 0, job |-> NoJob, alert |-> NoAlert, list |-> <<>>]
NoBulk == [pc |-> "idle", caller |-> None, ids |-> {}, valid |-> {}, status |-> None]
NoParse == [done |-> FALSE, output |-> <<>>, result |-> ParseThrown]
NoDel == [pc |-> "idle", user |-> None, alertIds |-> {}, jobIds |-> {}, sessionIds |-> {}]
NoSession == [userId |-> None, status |-> "absent"]
NoMon == [pc |-> "idle", op |-> None, user |-> None, session |-> 0, code |-> 0]
NoMonStatus == [user |-> None, isMonitoring |-> FALSE]
NoReg == [pc |-> "idle", op |-> None, uid |-> 0, email |-> None, code |-> 0]
NoCall == [promise |-> NoPromise, proc |-> "none", timer |-> "none"]
NoOutcome == [kind |-> None, code |-> 0, class |-> None, payload |-> None,
              fallback |-> FALSE]

Init ==
  /\ wrapper \in Wrappers
  /\ nextReq = 1
  /\ req = [j \in AllJobs |-> [pc |-> "idle", user |-> None, response |-> 0]]
  /\ running = 0
  /\ jobs = [j \in AllJobs |-> NoJob]
  /\ alerts = <<>>
  /\ promise = [j \in AllJobs |-> NoPromise]
  /\ queue = [j \in AllJobs |-> <<>>]
  /\ cont = [j \in AllJobs |-> NoCont]
  /\ proc = [j \in AllJobs |-> "none"]
  /\ isProcessing = [j \in AllJobs |-> FALSE]
  /\ timer = [j \in AllJobs |-> "none"]
  /\ elapsed = [j \in AllJobs |-> "no"]
  /\ log = [j \in AllJobs |-> <<>>]
  /\ outcome = [j \in AllJobs |-> NoOutcome]
  /\ busyAtArrival = [j \in AllJobs |-> FALSE]
  /\ storeThrew = [j \in AllJobs |-> FALSE]
  /\ resp = NoResp
  /\ bulk = NoBulk
  /\ iFlag = FALSE
  /\ iCalls = [c \in 1..MaxCalls |-> NoCall]
  /\ parsed = NoParse
  /\ del = NoDel
  /\ deleted = {}
  /\ sessions = <<>>
  /\ prefs = [u \in Users |-> TRUE]
  /\ mon = NoMon
  /\ monStatus = NoMonStatus
  /\ userDocs = <<>>
  /\ regs = [r \in 1..MaxReqs |-> NoReg]

\* ------------------------------------------------------------- promises
\* A promise that every resolve()/reject() call settles anew.
SettleEveryCall(p, q, settled) ==
  [p |-> settled, q |-> Append(q, settled)]

\* resolve()/reject() of a promise: only the first call settles it, and
\* settling queues the reaction of the .then/.catch chain.
Settle(p, q, settled) ==
  IF p.state = "pending"
  THEN [p |-> settled, q |-> Append(q, settled)]
  ELSE [p |-> p, q |-> q]

\* Reactions that run as soon as the promise settles, inside the caller.
MayRunReactionInline(j) == running \in {0, j}

\* Promise reactions are microtasks: they run when the call stack is empty,
\* never inside the synchronous segment of the route handler.
MayRunReaction(j) == running = 0

\* ------------------------------------------------------- error messages
ErrBusy == "Model is already processing another video"
ErrNoVideo == "Video file not found"
ErrNoScript == "Python model script not found"
ErrExit == "Model processing failed: <stderr>"
ErrParse == "Failed to parse model results"
ErrSpawn == "Failed to start model: <error.message>"
ErrTimeout == "Model processing timeout"
ErrStat == "ENOENT: no such file or directory, stat"
ErrStore == "<store error>"
ErrUndefined == "Cannot use undefined as a Firestore value"

\* ---------------------------------------------------------- submission
\* A record created without its status field.
analysisDataNoStatus(u) ==
  [status |-> "undefined", result |-> NoResult, error |-> None, userId |-> u,
   videoPath |-> "uploads/video"]

\* analysisData: the record POST /analyze-video creates.
analysisData(u) ==
  [status |-> "processing", result |-> NoResult, error |-> None, userId |-> u,
   videoPath |-> "uploads/video"]

InFlight(k) == promise[k].state = "pending"

\* The handler up to `await db.collection("fall_analyses").add(...)`.
Submit(j, u, hasFile) ==
  /\ running = 0
  /\ nextReq = j
  /\ req[j].pc = "idle"
  /\ nextReq' = j + 1
  /\ busyAtArrival' = [busyAtArrival EXCEPT ![j] = \E k \in AllJobs \ {j} : InFlight(k)]
  /\ req' = [req EXCEPT ![j] =
               IF hasFile THEN [pc |-> "adding", user |-> u, response |-> 0]
               ELSE [pc |-> "done", user |-> u, response |-> 400]]
  /\ UNCHANGED <<queryVars, instVars, parsed, acctVars, wrapper, running, jobs, alerts, promise, queue, cont, proc,
                 isProcessing, timer, elapsed, log, outcome, storeThrew>>

\* The add settles; on success the handler's synchronous segment starts.
AddJob(j, ok) ==
  /\ running = 0
  /\ req[j].pc = "adding"
  /\ IF ok
     THEN /\ jobs' = [jobs EXCEPT ![j] = analysisData(req[j].user)]
          /\ log' = [log EXCEPT ![j] = Append(@, "create")]
          /\ req' = [req EXCEPT ![j].pc = "sync_call"]
          /\ running' = j
     ELSE /\ req' = [req EXCEPT ![j].pc = "done", ![j].response = 500]
          /\ UNCHANGED <<jobs, log, running>>
  /\ UNCHANGED <<queryVars, instVars, parsed, acctVars, wrapper, nextReq, alerts, promise, queue, cont, proc, isProcessing,
                 timer, elapsed, outcome, busyAtArrival, storeThrew>>

\* A missing video that leaves the flag set.
ExecutorFailKeepsFlag(busy, videoExists, scriptExists) ==
  IF busy
  THEN [promise |-> Rejected(ErrBusy), spawned |-> FALSE, isProcessing |-> TRUE, timer |-> FALSE]
  ELSE IF ~videoExists
  THEN [promise |-> Rejected(ErrNoVideo), spawned |-> FALSE, isProcessing |-> TRUE, timer |-> FALSE]
  ELSE IF ~scriptExists
  THEN [promise |-> Rejected(ErrNoScript), spawned |-> FALSE, isProcessing |-> FALSE, timer |-> FALSE]
  ELSE [promise |-> Pending, spawned |-> TRUE, isProcessing |-> TRUE, timer |-> TRUE]

\* A busy check that gives the flag up.
ExecutorFailBusyClears(busy, videoExists, scriptExists) ==
  IF busy
  THEN [promise |-> Rejected(ErrBusy), spawned |-> FALSE, isProcessing |-> FALSE, timer |-> FALSE]
  ELSE IF ~videoExists
  THEN [promise |-> Rejected(ErrNoVideo), spawned |-> FALSE, isProcessing |-> FALSE, timer |-> FALSE]
  ELSE IF ~scriptExists
  THEN [promise |-> Rejected(ErrNoScript), spawned |-> FALSE, isProcessing |-> FALSE, timer |-> FALSE]
  ELSE [promise |-> Pending, spawned |-> TRUE, isProcessing |-> TRUE, timer |-> TRUE]

\* The promise executor of processVideo, fail-policy wrapper: what the call
\* leaves behind.  busy is this.isProcessing at entry.
ExecutorFail(busy, videoExists, scriptExists) ==
  IF busy
  THEN [promise |-> Rejected(ErrBusy), spawned |-> FALSE, isProcessing |-> TRUE, timer |-> FALSE]
  ELSE IF ~videoExists
  THEN [promise |-> Rejected(ErrNoVideo), spawned |-> FALSE, isProcessing |-> FALSE, timer |-> FALSE]
  ELSE IF ~scriptExists
  THEN [promise |-> Rejected(ErrNoScript), spawned |-> FALSE, isProcessing |-> FALSE, timer |-> FALSE]
  ELSE [promise |-> Pending, spawned |-> TRUE, isProcessing |-> TRUE, timer |-> TRUE]

\* The same for the simulate-policy wrapper: a missing video makes the
\* catch block's simulateFallDetection throw out of statSync, which rejects;
\* a missing script returns out of the executor without settling.
ExecutorSimulate(busy, videoExists, scriptExists) ==
  IF ~videoExists
  THEN [promise |-> Rejected(ErrStat), spawned |-> FALSE, isProcessing |-> busy, timer |-> FALSE]
  ELSE IF ~scriptExists
  THEN [promise |-> Pending, spawned |-> FALSE, isProcessing |-> busy, timer |-> FALSE]
  ELSE [promise |-> Pending, spawned |-> TRUE, isProcessing |-> busy, timer |-> FALSE]

\* require + new PythonModelIntegration() + processVideo(...).then(...).catch(...)
\* A throw of require/new lands in the handler's catch: 500.
CallProcessVideo(j, loadOk, videoExists, scriptExists) ==
  /\ running = j
  /\ req[j].pc = "sync_call"
  /\ IF ~loadOk
     THEN /\ req' = [req EXCEPT ![j].pc = "done", ![j].response = 500]
          /\ running' = 0
          /\ UNCHANGED <<promise, queue, proc, isProcessing, timer>>
     ELSE LET e == IF wrapper = "fail"
                   THEN ExecutorFail(isProcessing[j], videoExists, scriptExists)
                   ELSE ExecutorSimulate(isProcessing[j], videoExists, scriptExists)
              s == Settle(Pending, queue[j], e.promise)
          IN /\ promise' = [promise EXCEPT ![j] = IF e.promise.state = "pending" THEN Pending ELSE s.p]
             /\ queue' = [queue EXCEPT ![j] = IF e.promise.state = "pending" THEN @ ELSE s.q]
             /\ proc' = [proc EXCEPT ![j] = IF e.spawned THEN "running" ELSE "none"]
             /\ isProcessing' = [isProcessing EXCEPT ![j] = e.isProcessing]
             /\ timer' = [timer EXCEPT ![j] = IF e.timer THEN "armed" ELSE "none"]
             /\ req' = [req EXCEPT ![j].pc = "sync_respond"]
             /\ UNCHANGED running
  /\ UNCHANGED <<queryVars, instVars, parsed, acctVars, wrapper, nextReq, jobs, alerts, cont, elapsed, log, outcome,
                 busyAtArrival, storeThrew>>

\* res.status(202).json(...): the end of the synchronous segment.
Respond202(j) ==
  /\ running = j
  /\ req[j].pc = "sync_respond"
  /\ req' = [req EXCEPT ![j].pc = "done", ![j].response = 202]
  /\ log' = [log EXCEPT ![j] = Append(@, "202")]
  /\ running' = 0
  /\ UNCHANGED <<queryVars, instVars, parsed, acctVars, wrapper, nextReq, jobs, alerts, promise, queue, cont, proc,
                 isProcessing, timer, elapsed, outcome, busyAtArrival, storeThrew>>

\* ---------------------------------------------------- the subprocess
\* How section 4.2 of the specification classes an output: a structured
\* payload embedded anywhere, else recognised label lines, else neither.
OutputClass(o) ==
  IF \/ \E i \in 1..(Len(o) - 2) : o[i] = "{" /\ o[i+1] \in BodyTokens /\ o[i+2] = "}"
     \/ \E i \in 1..(Len(o) - 1) : o[i] = "{" /\ o[i+1] = "}"
  THEN "structured"
  ELSE IF \E i \in DOMAIN o : o[i] \in LabelTokens THEN "labels"
  ELSE "neither"

\* What each wrapper's close handler makes of an output on exit code 0.
\* The JSON body when the whole output is one JSON object, else None.
WholePayload(o) ==
  IF Len(o) = 3 /\ o[1] = "{" /\ o[3] = "}" /\ o[2] \in BodyTokens THEN o[2] ELSE None

CloseCase(o) ==
  [class |-> OutputClass(o),
   payload |-> WholePayload(o),
   simFallback |-> ~JSONparse(o).ok,
   fail  |-> parsePythonOutput(o),
   simFall |-> parseSimulateWrapper(o, TRUE),
   simNoFall |-> parseSimulateWrapper(o, FALSE)]

CloseCases == {CloseCase(o) : o \in Outputs}
NoOutput == CloseCase(<<>>)

\* pythonProcess.on("close") of the fail-policy wrapper: the settlement.
CloseFail(code, c) ==
  IF code # 0 THEN Rejected(ErrExit)
  ELSE IF c.fail.ok THEN Resolved(c.fail.value)
  ELSE Rejected(ErrParse)

\* pythonProcess.on("close") of the simulate-policy wrapper.
CloseSimulate(code, c, isFall) ==
  IF code # 0 THEN Resolved(simulateFallDetection(isFall))
  ELSE Resolved(IF isFall THEN c.simFall ELSE c.simNoFall)

FirstOutcome(j, o) == IF outcome[j].kind = None THEN o ELSE outcome[j]

\* The close event.  A process that was killed or never started closes with
\* a code other than 0.
ProcClose(j, code, c, isFall) ==
  /\ running = 0
  /\ proc[j] \in {"running", "killed", "spawnfailed"}
  /\ proc[j] # "running" => code # 0
  /\ LET settled == IF wrapper = "fail" THEN CloseFail(code, c)
                    ELSE CloseSimulate(code, c, isFall)
         s == Settle(promise[j], queue[j], settled)
     IN /\ promise' = [promise EXCEPT ![j] = s.p]
        /\ queue' = [queue EXCEPT ![j] = s.q]
  /\ proc' = [proc EXCEPT ![j] = "closed"]
  /\ isProcessing' = [isProcessing EXCEPT ![j] = IF wrapper = "fail" THEN FALSE ELSE @]
  /\ outcome' = [outcome EXCEPT ![j] =
                   FirstOutcome(j, [kind |-> "close", code |-> code,
                                    class |-> IF code = 0 THEN c.class ELSE None,
                                    payload |-> IF code = 0 THEN c.payload ELSE None,
                                    fallback |-> wrapper = "simulate" /\ (code # 0 \/ c.simFallback)])]
  /\ UNCHANGED <<queryVars, instVars, parsed, acctVars, wrapper, nextReq, req, running, jobs, alerts, cont, timer, elapsed,
                 log, busyAtArrival, storeThrew>>

\* The error event: the process could not be spawned.
ProcError(j, isFall) ==
  /\ running = 0
  /\ proc[j] = "running"
  /\ LET settled == IF wrapper = "fail" THEN Rejected(ErrSpawn)
                    ELSE Resolved(simulateFallDetection(isFall))
         s == Settle(promise[j], queue[j], settled)
     IN /\ promise' = [promise EXCEPT ![j] = s.p]
        /\ queue' = [queue EXCEPT ![j] = s.q]
  /\ proc' = [proc EXCEPT ![j] = "spawnfailed"]
  /\ isProcessing' = [isProcessing EXCEPT ![j] = IF wrapper = "fail" THEN FALSE ELSE @]
  /\ outcome' = [outcome EXCEPT ![j] =
                   FirstOutcome(j, [kind |-> "error", code |-> 0, class |-> None,
                                    payload |-> None, fallback |-> wrapper = "simulate"])]
  /\ UNCHANGED <<queryVars, instVars, parsed, acctVars, wrapper, nextReq, req, running, jobs, alerts, cont, timer, elapsed,
                 log, busyAtArrival, storeThrew>>

\* 300000 ms after the spawn.  The fail-policy wrapper set a timer whose
\* callback kills the process, clears the flag and rejects while the flag
\* is set; the simulate-policy wrapper set none.
TimeoutElapses(j) ==
  /\ running = 0
  /\ proc[j] # "none"
  /\ elapsed[j] = "no"
  /\ elapsed' = [elapsed EXCEPT ![j] = IF proc[j] = "running" THEN "hung" ELSE "exited"]
  /\ IF wrapper = "fail" /\ timer[j] = "armed" /\ isProcessing[j]
     THEN LET s == Settle(promise[j], queue[j], Rejected(ErrTimeout))
          IN /\ proc' = [proc EXCEPT ![j] = IF @ = "running" THEN "killed" ELSE @]
             /\ log' = [log EXCEPT ![j] = Append(@, "kill")]
             /\ isProcessing' = [isProcessing EXCEPT ![j] = FALSE]
             /\ promise' = [promise EXCEPT ![j] = s.p]
             /\ queue' = [queue EXCEPT ![j] = s.q]
             /\ outcome' = [outcome EXCEPT ![j] =
                   FirstOutcome(j, [kind |-> "timeout", code |-> 0, class |-> None,
                                    payload |-> None, fallback |-> FALSE])]
     ELSE UNCHANGED <<proc, log, isProcessing, promise, queue, outcome>>
  /\ timer' = [timer EXCEPT ![j] = IF @ = "armed" THEN "fired" ELSE @]
  /\ UNCHANGED <<queryVars, instVars, parsed, acctVars, wrapper, nextReq, req, running, jobs, alerts, cont,
                 busyAtArrival, storeThrew>>

\* ------------------------------------------------- the continuation
\* The result object the .then handler writes.
StoredResult(r) ==
  [fallDetected |-> r.fallDetected, confidence |-> r.confidence, others |-> r.others,
   simulation |-> IF r.simulation = "true" THEN "true" ELSE "false"]

\* The store refuses a document holding an undefined value.
HasUndefined(r) == "undefined" \in {r.fallDetected, r.confidence, r.others}

ContFinished(j) == cont[j].pc \in {"done", "unhandled"}

\* A queued reaction starts: .then's handler on fulfilment, .catch's on
\* rejection.
ReactionStart(j) ==
  /\ MayRunReaction(j)
  /\ queue[j] # <<>>
  /\ cont[j].pc = "none" \/ ContFinished(j)
  /\ LET r == Head(queue[j])
     IN cont' = [cont EXCEPT ![j] =
                   IF r.state = "resolved"
                   THEN [pc |-> "then_update", result |-> r.result, error |-> None]
                   ELSE [pc |-> "catch_update", result |-> NoResult, error |-> r.error]]
  /\ queue' = [queue EXCEPT ![j] = Tail(@)]
  /\ UNCHANGED <<queryVars, instVars, parsed, acctVars, wrapper, nextReq, req, running, jobs, alerts, promise, proc,
                 isProcessing, timer, elapsed, log, outcome, busyAtArrival, storeThrew>>

\* await analysisRef.update({status: "completed", result, updatedAt})
ThenUpdate(j, storeOk) ==
  /\ MayRunReaction(j)
  /\ cont[j].pc = "then_update"
  /\ LET r == StoredResult(cont[j].result)
         ok == storeOk /\ ~HasUndefined(r) /\ jobs[j].status # "absent"
     IN IF ok
        THEN /\ jobs' = [jobs EXCEPT ![j].status = "completed", ![j].result = r]
             /\ log' = [log EXCEPT ![j] = Append(@, "completed")]
             /\ cont' = [cont EXCEPT ![j].pc =
                           IF cont[j].result.fallDetected = "true" THEN "then_alert" ELSE "done"]
             /\ UNCHANGED storeThrew
        ELSE /\ cont' = [cont EXCEPT ![j].pc = "then_failed",
                                     ![j].error = IF HasUndefined(r) THEN ErrUndefined ELSE ErrStore]
             /\ storeThrew' = [storeThrew EXCEPT ![j] = @ \/ ~HasUndefined(r)]
             /\ UNCHANGED <<jobs, log>>
  /\ UNCHANGED <<queryVars, instVars, parsed, acctVars, wrapper, nextReq, req, running, alerts, promise, queue, proc,
                 isProcessing, timer, elapsed, outcome, busyAtArrival>>

\* An alert that takes its owner from nowhere and its severity from a default.
AlertRecordUnowned(j) ==
  [userId |-> None, analysisId |-> j, type |-> "fall_detected",
   severity |-> "medium", status |-> "active"]

\* The alert the .then handler adds.
AlertRecord(j) ==
  [userId |-> req[j].user, analysisId |-> j, type |-> "fall_detected",
   severity |-> "high", status |-> "active"]

\* await db.collection("alerts").add({...})
ThenAlert(j, storeOk) ==
  /\ MayRunReaction(j)
  /\ cont[j].pc = "then_alert"
  /\ IF storeOk
     THEN /\ alerts' = Append(alerts, AlertRecord(j))
          /\ log' = [log EXCEPT ![j] = Append(@, "alert")]
          /\ cont' = [cont EXCEPT ![j].pc = "done"]
          /\ UNCHANGED storeThrew
     ELSE /\ cont' = [cont EXCEPT ![j].pc = "then_failed", ![j].error = ErrStore]
          /\ storeThrew' = [storeThrew EXCEPT ![j] = TRUE]
          /\ UNCHANGED <<alerts, log>>
  /\ UNCHANGED <<queryVars, instVars, parsed, acctVars, wrapper, nextReq, req, running, jobs, promise, queue, proc,
                 isProcessing, timer, elapsed, outcome, busyAtArrival>>

\* A write that replaces the record instead of merging into it.
FailedWriteReplacing(job, message) == [NoJob EXCEPT !.status = "failed", !.error = message]

\* analysisRef.update({status: "failed", error: error.message, updatedAt}):
\* an update merges, so the other fields of the record stay.
FailedWrite(job, message) == [job EXCEPT !.status = "failed", !.error = message]

\* The catch block inside the .then handler; when its update throws, the
\* handler's promise rejects and the .catch handler runs.
ThenFailed(j, storeOk) ==
  /\ MayRunReaction(j)
  /\ cont[j].pc = "then_failed"
  /\ IF storeOk /\ jobs[j].status # "absent"
     THEN /\ jobs' = [jobs EXCEPT ![j] = FailedWrite(@, cont[j].error)]
          /\ log' = [log EXCEPT ![j] = Append(@, "failed")]
          /\ cont' = [cont EXCEPT ![j].pc = "done"]
          /\ UNCHANGED storeThrew
     ELSE /\ cont' = [cont EXCEPT ![j].pc = "catch_update", ![j].error = ErrStore]
          /\ storeThrew' = [storeThrew EXCEPT ![j] = TRUE]
          /\ UNCHANGED <<jobs, log>>
  /\ UNCHANGED <<queryVars, instVars, parsed, acctVars, wrapper, nextReq, req, running, alerts, promise, queue, proc,
                 isProcessing, timer, elapsed, outcome, busyAtArrival>>

\* The .catch handler; when its update throws nothing handles the rejection.
CatchUpdate(j, storeOk) ==
  /\ MayRunReaction(j)
  /\ cont[j].pc = "catch_update"
  /\ IF storeOk /\ jobs[j].status # "absent"
     THEN /\ jobs' = [jobs EXCEPT ![j] = FailedWrite(@, cont[j].error)]
          /\ log' = [log EXCEPT ![j] = Append(@, "failed")]
          /\ cont' = [cont EXCEPT ![j].pc = "done"]
          /\ UNCHANGED storeThrew
     ELSE /\ cont' = [cont EXCEPT ![j].pc = "unhandled"]
          /\ storeThrew' = [storeThrew EXCEPT ![j] = TRUE]
          /\ UNCHANGED <<jobs, log>>
  /\ UNCHANGED <<queryVars, instVars, parsed, acctVars, wrapper, nextReq, req, running, alerts, promise, queue, proc,
                 isProcessing, timer, elapsed, outcome, busyAtArrival>>

\* ----------------------------------------------------- specification
JobStep(j) ==
  \/ \E u \in Users, hasFile \in BOOLEAN : Submit(j, u, hasFile)
  \/ \E ok \in BOOLEAN : AddJob(j, ok)
  \/ \E loadOk, videoExists, scriptExists \in BOOLEAN :
       CallProcessVideo(j, loadOk, videoExists, scriptExists)
  \/ Respond202(j)
  \/ \E c \in CloseCases, isFall \in BOOLEAN : ProcClose(j, 0, c, isFall)
  \/ \E isFall \in BOOLEAN : ProcClose(j, 1, NoOutput, isFall)
  \/ \E isFall \in BOOLEAN : ProcError(j, isFall)
  \/ TimeoutElapses(j)
  \/ ReactionStart(j)
  \/ \E storeOk \in BOOLEAN : ThenUpdate(j, storeOk)
  \/ \E storeOk \in BOOLEAN : ThenAlert(j, storeOk)
  \/ \E storeOk \in BOOLEAN : ThenFailed(j, storeOk)
  \/ \E storeOk \in BOOLEAN : CatchUpdate(j, storeOk)

Next == \E j \in Jobs : JobStep(j)

Spec == Init /\ [][Next]_vars

\* The same handler serving one more request.
NextConcurrent == \E j \in AllJobs : JobStep(j)

SpecConcurrent == Init /\ [][NextConcurrent]_vars

\* ------------------------------------------------- query and alert routes
\* Documents carry createdAt = new Date() taken when they are added: a later
\* document has the larger id here, so createdAt order is id order.
DefaultLimit == 50
HistoryLimit == 20
LimitInputs == {1, DefaultLimit, DefaultLimit + 1}
PageInputs == {1, 2}
\* An id no document ever has.
UnknownId == 0

RECURSIVE orderByCreatedAtDesc(_)
orderByCreatedAtDesc(S) ==
  IF S = {} THEN <<>>
  ELSE LET newest == CHOOSE x \in S : \A y \in S : y <= x
       IN <<newest>> \o orderByCreatedAtDesc(S \ {newest})

limit(docs, n) == SubSeq(docs, 1, IF Len(docs) < n THEN Len(docs) ELSE n)

Reply(route, caller) == [NoResp EXCEPT !.route = route, !.caller = caller]

\* POST /alerts/manual.
ManualAlert(u, type, severity, ok) ==
  /\ Len(alerts) < MaxAlerts
  /\ alerts' = IF ok
               THEN Append(alerts, [userId |-> u, analysisId |-> 0, type |-> type,
                                    severity |-> severity, status |-> "active"])
               ELSE alerts
  /\ resp' = [Reply("manual", u) EXCEPT !.code = IF ok THEN 201 ELSE 500]
  /\ UNCHANGED <<wrapper, nextReq, req, running, jobs, promise, queue, cont, proc,
                 isProcessing, timer, elapsed, log, outcome, busyAtArrival,
                 storeThrew, bulk, instVars, parsed, acctVars>>

\* The fetch without its ownership test.
getAnalysisAnyCaller(store, caller, id) ==
  IF store[id].status = "absent" THEN [code |-> 404, job |-> NoJob]
  ELSE [code |-> 200, job |-> store[id]]

\* GET /analysis/:analysisId on the store's jobs.
getAnalysis(store, caller, id) ==
  IF store[id].status = "absent" THEN [code |-> 404, job |-> NoJob]
  ELSE IF store[id].userId # caller THEN [code |-> 403, job |-> NoJob]
  ELSE [code |-> 200, job |-> store[id]]

GetAnalysis(caller, id, ok) ==
  /\ LET r == getAnalysis(jobs, caller, id)
     IN resp' = [Reply("analysis", caller) EXCEPT
                   !.id = id,
                   !.code = IF ok THEN r.code ELSE 500,
                   !.job = IF ok THEN r.job ELSE NoJob]
  /\ UNCHANGED <<jobVars, bulk, instVars, parsed, acctVars>>

\* GET /alerts/:alertId on the store's alerts.
getAlert(store, caller, id) ==
  IF id \notin DOMAIN store THEN [code |-> 404, alert |-> NoAlert]
  ELSE IF store[id].userId # caller THEN [code |-> 403, alert |-> NoAlert]
  ELSE [code |-> 200, alert |-> store[id]]

GetAlert(caller, id, ok) ==
  /\ LET r == getAlert(alerts, caller, id)
     IN resp' = [Reply("alert", caller) EXCEPT
                   !.id = id,
                   !.code = IF ok THEN r.code ELSE 500,
                   !.alert = IF ok THEN r.alert ELSE NoAlert]
  /\ UNCHANGED <<jobVars, bulk, instVars, parsed, acctVars>>

\* GET /alerts: the caller's alerts, filtered, newest first, cut at the limit
\* of the query string; the offset computed from page is never applied.
ListAlerts(caller, status, type, lim, page, ok) ==
  /\ LET matching == {i \in DOMAIN alerts :
                        /\ alerts[i].userId = caller
                        /\ status # None => alerts[i].status = status
                        /\ type # None => alerts[i].type = type}
     IN resp' = [Reply("alerts", caller) EXCEPT
                   !.limit = lim,
                   !.code = IF ok THEN 200 ELSE 500,
                   !.list = IF ok THEN limit(orderByCreatedAtDesc(matching), lim)
                            ELSE <<>>]
  /\ UNCHANGED <<jobVars, bulk, instVars, parsed, acctVars>>

\* GET /analysis-history.
AnalysisHistory(caller, ok) ==
  /\ LET mine == {j \in AllJobs : jobs[j].status # "absent" /\ jobs[j].userId = caller}
     IN resp' = [Reply("history", caller) EXCEPT
                   !.limit = HistoryLimit,
                   !.code = IF ok THEN 200 ELSE 500,
                   !.list = IF ok THEN limit(orderByCreatedAtDesc(mine), HistoryLimit)
                            ELSE <<>>]
  /\ UNCHANGED <<jobVars, bulk, instVars, parsed, acctVars>>

AlertTypes == {"fall_detected", "other"}
AlertIds == DOMAIN alerts \cup {UnknownId}

\* The upload handler as far as its 202, which is what puts jobs in the store.
CreateJob(j) ==
  \/ \E u \in Users : Submit(j, u, TRUE)
  \/ \E ok \in BOOLEAN : AddJob(j, ok)
  \/ CallProcessVideo(j, TRUE, TRUE, TRUE)
  \/ Respond202(j)

\* The single-document routes over a store that fills.
NextQuery ==
  \/ \E j \in Jobs : CreateJob(j)
  \/ \E u \in Users, ok \in BOOLEAN : ManualAlert(u, "other", "medium", ok)
  \/ \E caller \in Users, id \in AllJobs, ok \in BOOLEAN : GetAnalysis(caller, id, ok)
  \/ \E caller \in Users, id \in AlertIds, ok \in BOOLEAN : GetAlert(caller, id, ok)

SpecQuery == Init /\ [][NextQuery]_vars

\* The list routes over a store that fills.
NextLists ==
  \/ \E j \in Jobs : CreateJob(j)
  \/ \E u \in Users, type \in AlertTypes, ok \in BOOLEAN :
       ManualAlert(u, type, "medium", ok)
  \/ \E caller \in Users, status \in {None, "active"}, type \in {None, "other"},
        lim \in LimitInputs, page \in PageInputs, ok \in BOOLEAN :
       ListAlerts(caller, status, type, lim, page, ok)
  \/ \E caller \in Users, ok \in BOOLEAN : AnalysisHistory(caller, ok)

SpecLists == Init /\ [][NextLists]_vars

\* ------------------------------------------------- POST /alerts/bulk-resolve
BulkStatuses == {"resolved", "false_positive"}

\* A filter that lets every named id through.
validAlertIdsUnfiltered(alertIds, userAlertIds) == alertIds

\* alertIds.filter((id) => userAlertIds.has(id))
validAlertIds(alertIds, userAlertIds) == alertIds \cap userAlertIds

BulkReply(caller, ids, code) ==
  [Reply("bulk", caller) EXCEPT !.ids = ids, !.code = code]

\* Validation, the query for the caller's alerts, and the filter.
BulkResolve(caller, ids, status, ok) ==
  /\ bulk.pc = "idle"
  /\ IF ids = {} \/ status \notin BulkStatuses
     THEN resp' = BulkReply(caller, ids, 400) /\ UNCHANGED bulk
     ELSE IF ~ok
     THEN resp' = BulkReply(caller, ids, 500) /\ UNCHANGED bulk
     ELSE LET userAlertIds == {i \in DOMAIN alerts : alerts[i].userId = caller}
              valid == validAlertIds(ids, userAlertIds)
          IN IF valid = {}
             THEN resp' = BulkReply(caller, ids, 400) /\ UNCHANGED bulk
             ELSE /\ bulk' = [pc |-> "commit", caller |-> caller, ids |-> ids,
                              valid |-> valid, status |-> status]
                  /\ UNCHANGED resp
  /\ UNCHANGED <<jobVars, instVars, parsed, acctVars>>

\* await batch.commit(): every update of the batch, or none.
BulkCommit(ok) ==
  /\ bulk.pc = "commit"
  /\ alerts' = IF ok
               THEN [i \in DOMAIN alerts |->
                       IF i \in bulk.valid THEN [alerts[i] EXCEPT !.status = bulk.status]
                       ELSE alerts[i]]
               ELSE alerts
  /\ resp' = BulkReply(bulk.caller, bulk.ids, IF ok THEN 200 ELSE 500)
  /\ bulk' = NoBulk
  /\ UNCHANGED <<wrapper, nextReq, req, running, jobs, promise, queue, cont, proc,
                 isProcessing, timer, elapsed, log, outcome, busyAtArrival,
                 storeThrew, instVars, parsed, acctVars>>

NextBulk ==
  \/ \E u \in Users, ok \in BOOLEAN : ManualAlert(u, "other", "medium", ok)
  \/ \E caller \in Users, ids \in SUBSET AlertIds, status \in BulkStatuses \cup {"active"},
        ok \in BOOLEAN :
       BulkResolve(caller, ids, status, ok)
  \/ \E ok \in BOOLEAN : BulkCommit(ok)

SpecBulk == Init /\ [][NextBulk]_vars

\* ------------------------------------- one fail-policy instance, many calls
Calls == 1..MaxCalls
\* What the subprocess of a call may have written when it exits with code 0.
InstanceOutputs == {<<>>, <<"{", "camelT", "}">>, <<"predFall", "conf">>}

\* processVideo(videoPath) on the instance.
ICall(c, videoExists, scriptExists) ==
  /\ iCalls[c].promise = NoPromise
  /\ \A d \in Calls : d < c => iCalls[d].promise # NoPromise
  /\ LET e == ExecutorFail(iFlag, videoExists, scriptExists)
     IN /\ iCalls' = [iCalls EXCEPT ![c] =
                        [promise |-> e.promise,
                         proc |-> IF e.spawned THEN "running" ELSE "none",
                         timer |-> IF e.timer THEN "armed" ELSE "none"]]
        /\ iFlag' = e.isProcessing
  /\ UNCHANGED <<jobVars, queryVars, parsed, acctVars>>

\* pythonProcess.on("close") of the call's subprocess.
IClose(c, code, o) ==
  /\ iCalls[c].proc \in {"running", "killed", "spawnfailed"}
  /\ iCalls[c].proc # "running" => code # 0
  /\ iCalls' = [iCalls EXCEPT
                  ![c].promise = Settle(@, <<>>, CloseFail(code, CloseCase(o))).p,
                  ![c].proc = "closed"]
  /\ iFlag' = FALSE
  /\ UNCHANGED <<jobVars, queryVars, parsed, acctVars>>

\* pythonProcess.on("error") of the call's subprocess.
IError(c) ==
  /\ iCalls[c].proc = "running"
  /\ iCalls' = [iCalls EXCEPT
                  ![c].promise = Settle(@, <<>>, Rejected(ErrSpawn)).p,
                  ![c].proc = "spawnfailed"]
  /\ iFlag' = FALSE
  /\ UNCHANGED <<jobVars, queryVars, parsed, acctVars>>

\* The setTimeout callback of the call, 300000 ms after it: timers of equal
\* delay run in the order they were set.
ITimer(c) ==
  /\ iCalls[c].timer = "armed"
  /\ \A d \in Calls : d < c => iCalls[d].timer # "armed"
  /\ IF iFlag
     THEN /\ iCalls' = [iCalls EXCEPT
                          ![c].promise = Settle(@, <<>>, Rejected(ErrTimeout)).p,
                          ![c].proc = IF @ = "running" THEN "killed" ELSE @,
                          ![c].timer = "fired"]
          /\ iFlag' = FALSE
     ELSE /\ iCalls' = [iCalls EXCEPT ![c].timer = "fired"]
          /\ UNCHANGED iFlag
  /\ UNCHANGED <<jobVars, queryVars, parsed, acctVars>>

NextInstance ==
  \E c \in Calls :
    \/ \E videoExists, scriptExists \in BOOLEAN : ICall(c, videoExists, scriptExists)
    \/ \E o \in InstanceOutputs : IClose(c, 0, o)
    \/ IClose(c, 1, <<>>)
    \/ IError(c)
    \/ ITimer(c)

SpecInstance == Init /\ [][NextInstance]_vars

\* A timer that was set runs its callback.
SpecInstanceFair == SpecInstance /\ \A c \in Calls : WF_vars(ITimer(c))

\* ------------------------------------------------- parsePythonOutput alone
\* parsePythonOutput applied to an output of the subprocess.
Parse(o) ==
  /\ parsed' = [done |-> TRUE, output |-> o, result |-> parsePythonOutput(o)]
  /\ UNCHANGED <<jobVars, queryVars, instVars, acctVars>>

NextParse == \E o \in Outputs : Parse(o)

SpecParse == Init /\ [][NextParse]_vars

\* ------------------------------------------------- DELETE /users/account
\* The user document is read and the password verified: the deletion starts.
DeleteStart(u) ==
  /\ del.pc = "idle"
  /\ u \notin deleted
  /\ del' = [NoDel EXCEPT !.pc = "alerts", !.user = u]
  /\ UNCHANGED <<jobVars, queryVars, instVars, parsed, deleted, monVars, regVars>>

\* The three queries for the user's documents, one await each.
DeleteQueryAlerts ==
  /\ del.pc = "alerts"
  /\ del' = [del EXCEPT !.pc = "analyses",
                        !.alertIds = {i \in DOMAIN alerts : alerts[i].userId = del.user}]
  /\ UNCHANGED <<jobVars, queryVars, instVars, parsed, deleted, monVars, regVars>>

DeleteQueryAnalyses ==
  /\ del.pc = "analyses"
  /\ del' = [del EXCEPT !.pc = "sessions",
                        !.jobIds = {j \in AllJobs : jobs[j].userId = del.user}]
  /\ UNCHANGED <<jobVars, queryVars, instVars, parsed, deleted, monVars, regVars>>

DeleteQuerySessions ==
  /\ del.pc = "sessions"
  /\ del' = [del EXCEPT !.pc = "commit",
                        !.sessionIds = {i \in DOMAIN sessions : sessions[i].userId = del.user}]
  /\ UNCHANGED <<jobVars, queryVars, instVars, parsed, deleted, monVars, regVars>>

\* await batch.commit(): every delete of the batch, or none; then the 200.
DeleteCommit(ok) ==
  /\ del.pc = "commit"
  /\ IF ok
     THEN /\ alerts' = [i \in DOMAIN alerts |->
                          IF i \in del.alertIds THEN NoAlert ELSE alerts[i]]
          /\ jobs' = [j \in AllJobs |-> IF j \in del.jobIds THEN NoJob ELSE jobs[j]]
          /\ sessions' = [i \in DOMAIN sessions |->
                            IF i \in del.sessionIds THEN NoSession ELSE sessions[i]]
          /\ deleted' = deleted \cup {del.user}
     ELSE UNCHANGED <<alerts, jobs, sessions, deleted>>
  /\ del' = NoDel
  /\ UNCHANGED <<wrapper, nextReq, req, running, promise, queue, cont, proc,
                 isProcessing, timer, elapsed, log, outcome, busyAtArrival,
                 storeThrew, queryVars, instVars, parsed, prefs, mon, monStatus, regVars>>

\* An account deleted while an upload of a user is analysed.
NextDelete ==
  \/ \E j \in Jobs : JobStep(j)
  \/ \E u \in Users : DeleteStart(u)
  \/ DeleteQueryAlerts
  \/ DeleteQueryAnalyses
  \/ DeleteQuerySessions
  \/ \E ok \in BOOLEAN : DeleteCommit(ok)

SpecDelete == Init /\ [][NextDelete]_vars

\* ------------------------------------------------- monitoring routes
\* The query of GET /monitoring-status and POST /stop-monitoring.
activeSessions(store, u) ==
  {i \in DOMAIN store : store[i].userId = u /\ store[i].status = "active"}

isMonitoring(store, u) == activeSessions(store, u) # {}

MonReply(op, u, code) == [NoMon EXCEPT !.op = op, !.user = u, !.code = code]

\* POST /start-monitoring: the session is added, whatever sessions exist.
StartMonitoring(u, ok) ==
  /\ mon.pc = "idle"
  /\ Len(sessions) < MaxSessions
  /\ IF ok
     THEN /\ sessions' = Append(sessions, [userId |-> u, status |-> "active"])
          /\ mon' = [MonReply("start", u, 0) EXCEPT !.pc = "start_prefs"]
     ELSE /\ mon' = MonReply("start", u, 500)
          /\ UNCHANGED sessions
  /\ UNCHANGED <<jobVars, queryVars, instVars, parsed, delVars, prefs, monStatus, regVars>>

\* ... then preferences.fallDetectionEnabled is set and 201 sent.
StartPrefs(ok) ==
  /\ mon.pc = "start_prefs"
  /\ prefs' = IF ok THEN [prefs EXCEPT ![mon.user] = TRUE] ELSE prefs
  /\ mon' = MonReply("start", mon.user, IF ok THEN 201 ELSE 500)
  /\ UNCHANGED <<jobVars, queryVars, instVars, parsed, delVars, sessions, monStatus, regVars>>

\* POST /stop-monitoring: the query for active sessions; snapshot.docs[0] is
\* whichever of them the store lists first.
StopMonitoring(u, ok) ==
  /\ mon.pc = "idle"
  /\ \/ /\ ~ok
        /\ mon' = MonReply("stop", u, 500)
     \/ /\ ok
        /\ activeSessions(sessions, u) = {}
        /\ mon' = MonReply("stop", u, 404)
     \/ /\ ok
        /\ \E s \in activeSessions(sessions, u) :
             mon' = [MonReply("stop", u, 0) EXCEPT !.pc = "stop_session", !.session = s]
  /\ UNCHANGED <<jobVars, queryVars, instVars, parsed, delVars, sessions, prefs,
                 monStatus, regVars>>

\* ... sessionDoc.ref.update({status: "stopped", ...})
StopSession(ok) ==
  /\ mon.pc = "stop_session"
  /\ IF ok
     THEN /\ sessions' = [sessions EXCEPT ![mon.session].status = "stopped"]
          /\ mon' = [mon EXCEPT !.pc = "stop_prefs"]
     ELSE /\ mon' = MonReply("stop", mon.user, 500)
          /\ UNCHANGED sessions
  /\ UNCHANGED <<jobVars, queryVars, instVars, parsed, delVars, prefs, monStatus, regVars>>

\* ... then preferences.fallDetectionEnabled is cleared and 200 sent.
StopPrefs(ok) ==
  /\ mon.pc = "stop_prefs"
  /\ prefs' = IF ok THEN [prefs EXCEPT ![mon.user] = FALSE] ELSE prefs
  /\ mon' = MonReply("stop", mon.user, IF ok THEN 200 ELSE 500)
  /\ UNCHANGED <<jobVars, queryVars, instVars, parsed, delVars, sessions, monStatus, regVars>>

\* GET /monitoring-status.
MonitoringStatus(u) ==
  /\ monStatus' = [user |-> u, isMonitoring |-> isMonitoring(sessions, u)]
  /\ UNCHANGED <<jobVars, queryVars, instVars, parsed, delVars, sessions, prefs, mon,
                 regVars>>

NextMonitor ==
  \/ \E u \in Users, ok \in BOOLEAN : StartMonitoring(u, ok)
  \/ \E ok \in BOOLEAN : StartPrefs(ok)
  \/ \E u \in Users, ok \in BOOLEAN : StopMonitoring(u, ok)
  \/ \E ok \in BOOLEAN : StopSession(ok)
  \/ \E ok \in BOOLEAN : StopPrefs(ok)
  \/ \E u \in Users : MonitoringStatus(u)

SpecMonitor == Init /\ [][NextMonitor]_vars

\* ------------------------------------------------- the users collection
Emails == {"a@example.com", "b@example.com"}
Reqs == 1..MaxReqs

RegReply(op, uid, email, code) ==
  [pc |-> "done", op |-> op, uid |-> uid, email |-> email, code |-> code]

\* The users whose document holds the email, for where("email", "==", email).
holders(store, email) == {i \in DOMAIN store : store[i] = email}

\* POST /auth/register up to its query for the email.
RegisterCheck(r, email, ok) ==
  /\ regs[r].pc = "idle"
  /\ \A q \in Reqs : q < r => regs[q].pc # "idle"
  /\ regs' = [regs EXCEPT ![r] =
                IF ~ok THEN RegReply("register", 0, email, 500)
                ELSE IF holders(userDocs, email) # {}
                THEN RegReply("register", 0, email, 400)
                ELSE [RegReply("register", 0, email, 0) EXCEPT !.pc = "adding"]]
  /\ UNCHANGED <<jobVars, queryVars, instVars, parsed, delVars, monVars, userDocs>>

\* ... the password is hashed, then userRef.add(userData) and the 201.
RegisterAdd(r, ok) ==
  /\ regs[r].pc = "adding"
  /\ IF ok
     THEN /\ userDocs' = Append(userDocs, regs[r].email)
          /\ regs' = [regs EXCEPT ![r] =
                        RegReply("register", Len(userDocs) + 1, regs[r].email, 201)]
     ELSE /\ regs' = [regs EXCEPT ![r] = RegReply("register", 0, regs[r].email, 500)]
          /\ UNCHANGED userDocs
  /\ UNCHANGED <<jobVars, queryVars, instVars, parsed, delVars, monVars>>

\* PUT /users/profile with an email, up to its query for other holders.
ProfileCheck(r, uid, email, ok) ==
  /\ regs[r].pc = "idle"
  /\ \A q \in Reqs : q < r => regs[q].pc # "idle"
  /\ uid \in DOMAIN userDocs
  /\ regs' = [regs EXCEPT ![r] =
                IF ~ok THEN RegReply("profile", uid, email, 500)
                ELSE IF holders(userDocs, email) \ {uid} # {}
                THEN RegReply("profile", uid, email, 400)
                ELSE [RegReply("profile", uid, email, 0) EXCEPT !.pc = "updating"]]
  /\ UNCHANGED <<jobVars, queryVars, instVars, parsed, delVars, monVars, userDocs>>

\* ... users.doc(userId).update(updateData) and the 200.
ProfileUpdate(r, ok) ==
  /\ regs[r].pc = "updating"
  /\ IF ok
     THEN /\ userDocs' = [userDocs EXCEPT ![regs[r].uid] = regs[r].email]
          /\ regs' = [regs EXCEPT ![r].pc = "done", ![r].code = 200]
     ELSE /\ regs' = [regs EXCEPT ![r].pc = "done", ![r].code = 500]
          /\ UNCHANGED userDocs
  /\ UNCHANGED <<jobVars, queryVars, instVars, parsed, delVars, monVars>>

NextUsers ==
  \E r \in Reqs :
    \/ \E email \in Emails, ok \in BOOLEAN : RegisterCheck(r, email, ok)
    \/ \E ok \in BOOLEAN : RegisterAdd(r, ok)
    \/ \E uid \in 1..MaxReqs, email \in Emails, ok \in BOOLEAN : ProfileCheck(r, uid, email, ok)
    \/ \E ok \in BOOLEAN : ProfileUpdate(r, ok)

SpecUsers == Init /\ [][NextUsers]_vars

\* ------------------------------------------------------------- claims
Terminal == {"completed", "failed"}
AlertsOf(j) == {i \in DOMAIN alerts : alerts[i].analysisId = j}
Before(j, a, i) == \E k \in 1..(i - 1) : log[j][k] = a
Logged(j, a) == \E i \in DOMAIN log[j] : log[j][i] = a

\* C1: once a job's status has been written as completed or failed, no later
\* write changes it: the terminal writes of a job all carry the same status.
C1_TerminalStatusNeverRewritten ==
  \A j \in AllJobs : \A i, k \in DOMAIN log[j] :
    (i < k /\ log[j][i] \in Terminal /\ log[j][k] \in Terminal) => log[j][i] = log[j][k]

\* C2: a job record holds a result exactly when its status is completed and
\* an error exactly when its status is failed.
C2_ResultIffCompletedErrorIffFailed ==
  \A j \in AllJobs : jobs[j].status # "absent" =>
    /\ (jobs[j].result # NoResult) <=> (jobs[j].status = "completed")
    /\ (jobs[j].error # None) <=> (jobs[j].status = "failed")

\* C3: once the continuation has finished, an alert referencing the job exists
\* exactly when the job is completed with result.fallDetected = true.
C3_AlertIffCompletedWithFall ==
  \A j \in AllJobs : ContFinished(j) /\ queue[j] = <<>> =>
    ((AlertsOf(j) # {}) <=>
       (jobs[j].status = "completed" /\ jobs[j].result.fallDetected = "true"))

\* C4: whatever the order of the close event, the error event and the
\* timeout, the analysis pathway creates at most one alert per job.
C4_AtMostOneAlertPerJob ==
  \A j \in AllJobs : Cardinality(AlertsOf(j)) <= 1

\* An alert exists for a job whose process emitted error and then close and
\* whose 5 minutes have passed as well.
C4_Witness ==
  \E j \in AllJobs :
    /\ Cardinality(AlertsOf(j)) = 1
    /\ outcome[j].kind = "error"
    /\ proc[j] = "closed"
    /\ elapsed[j] # "no"

\* C5: the 202 response is sent before any reconciliation write (completed,
\* failed, alert) for the job.
C5_ResponseBeforeReconciliation ==
  \A j \in AllJobs : \A i \in DOMAIN log[j] :
    log[j][i] \in Terminal \cup {"alert"} => Before(j, "202", i)

\* processVideo rejected inside the handler's call, and still the response
\* went out before the failed-write; and a response sent while the
\* subprocess was running, followed by the completed-write and the alert.
C5_Witness ==
  \E j \in AllJobs :
    \/ /\ promise[j] = Rejected(ErrNoVideo)
       /\ log[j] = <<"create", "202", "failed">>
    \/ /\ proc[j] = "closed"
       /\ log[j] = <<"create", "202", "completed", "alert">>

\* C6: the write creating the record as processing precedes every terminal
\* write, and from the 202 response until the first terminal write the
\* record reads processing.
C6_ProcessingBeforeTerminal ==
  \A j \in AllJobs :
    /\ \A i \in DOMAIN log[j] : log[j][i] \in Terminal => Before(j, "create", i)
    /\ (req[j].response = 202 /\ ~Logged(j, "completed") /\ ~Logged(j, "failed"))
         => jobs[j].status = "processing"

\* The response has been sent, processVideo rejected at once (video file
\* missing) and the reaction has not run yet: the record reads processing.
C6_Witness ==
  \E j \in AllJobs :
    /\ req[j].response = 202
    /\ promise[j] = Rejected(ErrNoVideo)
    /\ cont[j].pc = "none"
    /\ jobs[j].status = "processing"

\* C7: when starting the analysis throws in the handler after the record
\* was created, the record is failed by the time the handler responds.
C7_StartFailureMarksJobFailed ==
  \A j \in AllJobs :
    (req[j].response = 500 /\ jobs[j].status # "absent") => jobs[j].status = "failed"

\* C8: a subprocess still running when the 5 minutes elapse is killed, the
\* kill precedes the failed-write, and the job ends failed.
C8_TimeoutKillsThenFails ==
  \A j \in AllJobs : elapsed[j] = "hung" =>
    /\ Logged(j, "kill")
    /\ \A i \in DOMAIN log[j] : log[j][i] = "failed" => Before(j, "kill", i)
    /\ (ContFinished(j) /\ ~storeThrew[j]) => jobs[j].status = "failed"

\* C9: a submission arriving while another analysis is in flight is not
\* answered 202 and is not recorded later as a failed job.
C9_BusySubmissionRejected ==
  \A j \in AllJobs :
    (busyAtArrival[j] /\ \E k \in AllJobs \ {j} : InFlight(k)) =>
      /\ req[j].response # 202
      /\ ~(jobs[j].status = "failed" /\ jobs[j].error = ErrBusy)

\* C10: with the fail-policy wrapper a non-zero exit, a spawn error, an
\* output that parses as neither format and a timeout each reject
\* processVideo and leave the job failed with an error and no alert; only
\* exit code 0 with parseable output leads to completed.
FailedAttempt(j) ==
  \/ outcome[j].kind \in {"error", "timeout"}
  \/ outcome[j].kind = "close" /\ outcome[j].code # 0
  \/ outcome[j].kind = "close" /\ outcome[j].code = 0 /\ outcome[j].class = "neither"

C10_FailedAttemptsFailTheJob ==
  \A j \in AllJobs : wrapper = "fail" =>
    /\ (FailedAttempt(j) /\ ContFinished(j) /\ ~storeThrew[j]) =>
         /\ promise[j].state = "rejected"
         /\ jobs[j].status = "failed"
         /\ jobs[j].error # None
         /\ AlertsOf(j) = {}
    /\ Logged(j, "completed") =>
         (outcome[j].kind = "close" /\ outcome[j].code = 0 /\ outcome[j].class # "neither")

\* C11: exit code 0 with a JSON payload whose fall_detected is b leaves the
\* job completed with result.fallDetected = b, with exactly one alert of
\* severity high when b is true and none when b is false, in both wrappers.
C11_JsonPayloadCompletesJob ==
  \A j \in AllJobs :
    (/\ outcome[j].kind = "close" /\ outcome[j].code = 0
     /\ outcome[j].payload \in {"snakeT", "snakeF"}
     /\ ContFinished(j) /\ ~storeThrew[j]) =>
      LET b == IF outcome[j].payload = "snakeT" THEN "true" ELSE "false"
      IN /\ jobs[j].status = "completed"
         /\ jobs[j].result.fallDetected = b
         /\ Cardinality(AlertsOf(j)) = IF b = "true" THEN 1 ELSE 0
         /\ \A i \in AlertsOf(j) : alerts[i].severity = "high"

\* C12: in the simulate-policy wrapper a result carries simulation = true
\* exactly when the fallback estimator produced it, the stored result says
\* the same, and a fallback result holds fallDetected, a confidence within
\* [0, 1], processingTime and frames.
C12_SimulationFlagMarksFallback ==
  /\ \A j \in AllJobs : wrapper = "simulate" =>
       /\ promise[j].state = "resolved" =>
            /\ (promise[j].result.simulation = "true") <=> outcome[j].fallback
            /\ outcome[j].fallback =>
                 /\ promise[j].result.fallDetected \in {"true", "false"}
                 /\ promise[j].result.confidence = "set"
                 /\ promise[j].result.others = "set"
       /\ jobs[j].result # NoResult =>
            ((jobs[j].result.simulation = "true") <=> outcome[j].fallback)
  /\ \A isFall \in BOOLEAN, rnd \in RandomSamples :
       simulatedConfidence(isFall, rnd) \in 0..1000

\* A job completed from a fallback result after a non-zero exit, and, in
\* another run, one completed from a genuine run.
C12_Witness ==
  \E j \in AllJobs :
    /\ wrapper = "simulate"
    /\ jobs[j].status = "completed"
    /\ outcome[j].kind = "close" /\ outcome[j].code # 0
    /\ outcome[j].fallback
    /\ jobs[j].result.simulation = "true"

\* C13: the error stored on a failed job never carries the subprocess's
\* standard error text or other raw subprocess internals.
RawInternals == {ErrExit, ErrSpawn}

C13_ErrorNeverCarriesStderr ==
  \A j \in AllJobs : jobs[j].error \notin RawInternals

\* C14: GET /analysis/:analysisId and GET /alerts/:alertId hand a record's data
\* only to the caller whose uid is the record's userId: a fetch that read the
\* store answers 404 for an id with no record and 403, with none of the
\* record's fields, for a record of another user; a fetch whose store read
\* failed answers 500 with no fields either.
C14_OnlyOwnerReadsRecord ==
  [][/\ (resp' # resp /\ resp'.route = "analysis") =>
          LET rec == jobs[resp'.id]
              there == rec.status # "absent"
              mine == there /\ rec.userId = resp'.caller
          IN /\ resp'.code \in {200, 403, 404, 500}
             /\ resp'.code = 200 <=> (mine /\ resp'.code # 500)
             /\ resp'.job = IF resp'.code = 200 THEN rec ELSE NoJob
             /\ resp'.code = 404 <=> (~there /\ resp'.code # 500)
             /\ resp'.code = 403 <=> (there /\ ~mine /\ resp'.code # 500)
     /\ (resp' # resp /\ resp'.route = "alert") =>
          LET there == resp'.id \in DOMAIN alerts
              mine == there /\ alerts[resp'.id].userId = resp'.caller
          IN /\ resp'.code \in {200, 403, 404, 500}
             /\ resp'.code = 200 <=> (mine /\ resp'.code # 500)
             /\ resp'.alert = IF resp'.code = 200 THEN alerts[resp'.id] ELSE NoAlert
             /\ resp'.code = 404 <=> (~there /\ resp'.code # 500)
             /\ resp'.code = 403 <=> (there /\ ~mine /\ resp'.code # 500)
    ]_vars

\* A caller was refused another user's job.
C14_Witness ==
  /\ resp.route = "analysis"
  /\ resp.code = 403
  /\ jobs[resp.id].status = "processing"
  /\ jobs[resp.id].userId \in Users \ {resp.caller}
  /\ resp.job = NoJob

\* C15: a caller who is not the owner cannot tell whether a job id exists: the
\* response to a fetch of an id under which another user's job is stored is
\* the response the same fetch gets from the store without that job.
C15_NonOwnerCannotTellExistence ==
  (/\ resp.route = "analysis"
   /\ resp.code # 500
   /\ jobs[resp.id].status # "absent"
   /\ jobs[resp.id].userId # resp.caller) =>
    [code |-> resp.code, job |-> resp.job]
      = getAnalysis([jobs EXCEPT ![resp.id] = NoJob], resp.caller, resp.id)

\* C16: a list route returns only the caller's records, newest first, and
\* never asks the store for more than a fixed number of them: 20 for
\* GET /analysis-history, and for GET /alerts no more than the route's own
\* page size whatever limit and page the caller sends.
C16_ListsOwnedOrderedBounded ==
  (resp.route \in {"alerts", "history"} /\ resp.code = 200) =>
    /\ \A i \in DOMAIN resp.list :
         IF resp.route = "alerts" THEN alerts[resp.list[i]].userId = resp.caller
         ELSE jobs[resp.list[i]].userId = resp.caller
    /\ \A i, k \in DOMAIN resp.list : i < k => resp.list[i] > resp.list[k]
    /\ resp.route = "history" => resp.limit = HistoryLimit
    /\ resp.route = "alerts" => resp.limit <= DefaultLimit
    /\ Len(resp.list) <= resp.limit

\* C17: the commit of POST /alerts/bulk-resolve sets the status of exactly the
\* alerts that are named in alertIds and owned by the caller, all of them in
\* that one step, and leaves every other alert as it was; a failed commit
\* changes nothing; and a request none of whose named ids is owned by the
\* caller is answered 400 (500 when the query for the caller's alerts failed),
\* reaches no commit and changes nothing.
C17_BulkResolveChangesNamedAndOwned ==
  [][/\ (bulk.pc = "commit" /\ bulk'.pc = "idle") =>
          /\ DOMAIN alerts' = DOMAIN alerts
          /\ resp'.code \in {200, 500}
          /\ \A i \in DOMAIN alerts :
               alerts'[i] = IF /\ resp'.code = 200
                               /\ i \in bulk.ids
                               /\ alerts[i].userId = bulk.caller
                            THEN [alerts[i] EXCEPT !.status = bulk.status]
                            ELSE alerts[i]
     /\ (bulk.pc = "idle" /\ (bulk'.pc = "commit" \/ (resp' # resp /\ resp'.route = "bulk"))) =>
          LET sent == IF bulk'.pc = "commit" THEN bulk' ELSE resp'
              owned == {i \in sent.ids \cap DOMAIN alerts : alerts[i].userId = sent.caller}
          IN /\ alerts' = alerts
             /\ bulk'.pc = "commit" => owned # {} /\ bulk'.status \in BulkStatuses
             /\ owned = {} => bulk'.pc = "idle" /\ resp'.code \in {400, 500}
    ]_vars

\* A request naming an alert of the caller and an alert of another user was
\* committed: the caller's alert has the new status, the other is still active.
C17_Witness ==
  /\ resp.route = "bulk"
  /\ resp.code = 200
  /\ \E i, k \in resp.ids \cap DOMAIN alerts :
       /\ alerts[i].userId = resp.caller
       /\ alerts[i].status \in BulkStatuses
       /\ alerts[k].userId # resp.caller
       /\ alerts[k].status = "active"

\* C18: every alert the analysis pathway created names the job whose .then
\* handler added it, carries that job's userId, and has type fall_detected,
\* severity high and status active.
C18_PathwayAlertFields ==
  /\ \A i \in DOMAIN alerts :
       LET a == alerts[i]
       IN /\ a.analysisId \in AllJobs
          /\ jobs[a.analysisId].status # "absent"
          /\ a.userId = jobs[a.analysisId].userId
          /\ a.type = "fall_detected"
          /\ a.severity = "high"
          /\ a.status = "active"
  /\ \A j \in AllJobs :
       Cardinality(AlertsOf(j)) = Cardinality({k \in DOMAIN log[j] : log[j][k] = "alert"})

\* The pathway created an alert for a user's job.
C18_Witness ==
  /\ Len(alerts) > 0
  /\ Logged(alerts[1].analysisId, "alert")
  /\ alerts[1].userId \in Users

Running == {c \in Calls : iCalls[c].proc = "running"}

\* C19: on one PythonModelIntegration instance at most one spawned subprocess
\* that has not yet exited exists at any time, whatever the order of calls,
\* close and error events and timers; here counting only the subprocesses
\* that were not even killed.
C19_AtMostOneSubprocess == Cardinality(Running) <= 1

\* C20: a processVideo call on an instance whose isProcessing flag is true
\* rejects with the busy error, spawns nothing, sets no timer, leaves the
\* flag true and leaves every other call as it was; and a pending call
\* settles only in a step of its own subprocess or its own timer.
C20_BusyCallRejectedInFlightKept ==
  [][\A c \in Calls :
       /\ (iFlag /\ iCalls[c].promise = NoPromise /\ iCalls'[c].promise # NoPromise) =>
            /\ iCalls'[c] = [promise |-> Rejected(ErrBusy), proc |-> "none", timer |-> "none"]
            /\ iFlag'
            /\ \A d \in Calls \ {c} : iCalls'[d] = iCalls[d]
       /\ (iCalls[c].promise = Pending /\ iCalls'[c].promise # Pending) =>
            \/ iCalls'[c].proc # iCalls[c].proc
            \/ iCalls'[c].timer # iCalls[c].timer
    ]_vars

\* The second call found the instance busy and was rejected; the first, in
\* flight at that moment, resolved with what its subprocess wrote.
C20_Witness ==
  /\ iCalls[2].promise = Rejected(ErrBusy)
  /\ iCalls[1].promise.state = "resolved"
  /\ iCalls[1].proc = "closed"

\* C21: the reconciliation of a job whose status is no longer processing
\* writes nothing to the job record: once a record is completed or failed no
\* step changes it.
C21_ReconcilingTerminalJobIsNoOp ==
  [][\A j \in AllJobs : jobs[j].status \in Terminal => jobs'[j] = jobs[j]]_vars

\* C22: a failure in the continuation that runs after the 202, a rejected
\* processVideo or a store call that threw, ends with the job failed and
\* with the rejection handled; none leaves the job in processing.
C22_BackgroundFailureEndsFailed ==
  \A j \in AllJobs :
    (ContFinished(j) /\ (storeThrew[j] \/ promise[j].state = "rejected")) =>
      /\ jobs[j].status = "failed"
      /\ cont[j].pc # "unhandled"

\* C23: with the fail-policy wrapper, exit code 0 with an output that holds
\* neither a structured payload nor a recognised label is a parse failure:
\* processVideo does not resolve and the job does not become completed.
C23_UnrecognisedOutputIsParseFailure ==
  \A j \in AllJobs :
    (/\ wrapper = "fail"
     /\ outcome[j].kind = "close"
     /\ outcome[j].code = 0
     /\ outcome[j].class = "neither") =>
      /\ promise[j].state # "resolved"
      /\ ~Logged(j, "completed")

\* C25: with the simulate-policy wrapper a call for an existing video
\* resolves whatever goes wrong, so a call that is still pending has a
\* subprocess running whose close or error event will resolve it.
C25_SimulateWrapperAlwaysResolves ==
  \A j \in AllJobs :
    (wrapper = "simulate" /\ promise[j].state = "pending") => proc[j] = "running"

\* The JSON objects that stand somewhere in an output.
EmbeddedBodies(o) ==
  {o[i + 1] : i \in {k \in 1..(Len(o) - 2) :
                       o[k] = "{" /\ o[k + 1] \in BodyTokens /\ o[k + 2] = "}"}}
    \cup (IF \E k \in 1..(Len(o) - 1) : o[k] = "{" /\ o[k + 1] = "}"
          THEN {"empty"} ELSE {})

\* C24: parsePythonOutput returns the payload of a valid JSON object that
\* stands anywhere in the output and, when no such object is there, the
\* result built from the label lines of an output that has some, braces that
\* form no valid JSON notwithstanding.
C24_ParserAcceptsEitherFormat ==
  parsed.done =>
    LET o == parsed.output
    IN /\ OutputClass(o) = "structured" =>
            /\ parsed.result.ok
            /\ \E b \in EmbeddedBodies(o) : parsed.result.value = RawObject(b)
       /\ OutputClass(o) = "labels" =>
            parsed.result = Returned(ScanLines(o, LineDefaults))

\* C26: no write to a job record after its creation touches the fields set
\* at creation: userId and videoPath (and videoName and createdAt, written by
\* the same literal and named by no update) keep their values.
C26_CreationFieldsImmutable ==
  [][\A j \in AllJobs :
       jobs[j].status # "absent" =>
         /\ jobs'[j].userId = jobs[j].userId
         /\ jobs'[j].videoPath = jobs[j].videoPath
         /\ jobs[j].userId = req[j].user
    ]_vars

\* A job was written as failed after it had been written as completed, and
\* still has its owner and its video.
C26_Witness ==
  \E j \in AllJobs :
    /\ Logged(j, "completed")
    /\ jobs[j].status = "failed"
    /\ jobs[j].userId \in Users
    /\ jobs[j].videoPath = "uploads/video"

\* C27: on a fail-policy instance the flag is set only while a subprocess of
\* the instance is running, so with none running the next call is not
\* rejected as busy; and a flag that is set is cleared again, by the close
\* or error event or by the timer of the call that set it.
C27_FlagReleased ==
  /\ [](iFlag => Running # {})
  /\ iFlag ~> ~iFlag

\* A call set the flag, its subprocess closed, and the flag is clear.
C27_Witness ==
  /\ ~iFlag
  /\ iCalls[1].proc = "closed"
  /\ iCalls[1].timer = "armed"

\* C28: once DELETE /users/account has succeeded for a user the store holds
\* no alert, no analysis job and no monitoring session with that userId,
\* also when an analysis of that user was in flight during the deletion.
C28_DeletedUserLeavesNothing ==
  \A u \in deleted :
    /\ \A i \in DOMAIN alerts : alerts[i].userId # u
    /\ \A j \in AllJobs : jobs[j].userId # u
    /\ \A i \in DOMAIN sessions : sessions[i].userId # u

\* C29: when a stop-monitoring request has been answered with success, the
\* user has no active monitoring session, so monitoring-status would report
\* isMonitoring = false, in agreement with fallDetectionEnabled = false.
C29_StopLeavesNoActiveSession ==
  (mon.pc = "idle" /\ mon.op = "stop" /\ mon.code = 200) =>
    /\ ~isMonitoring(sessions, mon.user)
    /\ ~prefs[mon.user]

\* C30: no two user documents hold the same email, however register and
\* profile requests interleave.
C30_EmailsUnique ==
  \A i, k \in DOMAIN userDocs : i # k => userDocs[i] # userDocs[k]
====
